---- MODULE Spec2Model ----
(***************************************************************************)
(* Model of microdata_csv_ssb_formatting.py: main() and the stages it      *)
(* calls (extract_metadata_filenames, read_metadata_filenames,             *)
(* prepare_directory, save_variable_to_csv, download_metadata,             *)
(* validate_downloaded_metadata, validate_created_dataset,                 *)
(* package_and_encrypt_dataset).                                           *)
(*                                                                         *)
(* The file system is a set of directories and a map from file paths to    *)
(* contents; a path is a sequence of components.  The process's current    *)
(* working directory (cwd) is part of the state because prepare_directory  *)
(* and save_variable_to_csv address files through os.chdir.                *)
(* The HTTP endpoint, the validators of microdata_tools and its packager   *)
(* are the environment: a request times out, fails or returns a body; the  *)
(* validators are functions of the files they read; the packager returns   *)
(* or raises.                                                              *)
(***************************************************************************)
EXTENDS Naturals, Sequences, FiniteSets, TLC

\* ------------------------------------------------------------------ bounds
\* Longest run of variable columns after the identifier/time columns.
MaxVars == 2
\* Number of times the script is run against the same directories.
MaxRuns == 2

\* ------------------------------------------------------------ names, text
\* main: columns_to_skip; also the literal lists of save_variable_to_csv
\* and download_metadata.
columns_to_skip == {"sidkrg", "start_time", "stop_time"}

\* The identifier/time columns every wide table starts with.
FixedCols == <<"sidkrg", "start_time", "stop_time">>

\* Column names a header may carry after the fixed columns: a lowercase
\* name, the same name capitalised, and a name written after a blank.
VarNames == {"age", "Age", " bmi"}

\* str.strip() on the names of the model.
Strip(s) == IF s = " bmi" THEN "bmi" ELSE s

\* str.lower()
Lower(s) ==
  CASE s = "Age" -> "age"
    [] s = "AGE" -> "age"
    [] s = "Sidkrg" -> "sidkrg"
    [] s = "BMI" -> "bmi"
    [] s = "SIDKRG" -> "sidkrg"
    [] s = "START_TIME" -> "start_time"
    [] s = "STOP_TIME" -> "stop_time"
    [] OTHER -> s

\* str.upper()
Upper(s) ==
  CASE s = "age" -> "AGE"
    [] s = "Age" -> "AGE"
    [] s = "bmi" -> "BMI"
    [] s = " bmi" -> " BMI"
    [] s = "sidkrg" -> "SIDKRG"
    [] s = "Sidkrg" -> "SIDKRG"
    [] s = "start_time" -> "START_TIME"
    [] s = "stop_time" -> "STOP_TIME"
    [] OTHER -> s

\* The set of elements of a sequence.
Range(s) == {s[i] : i \in DOMAIN s}

\* ------------------------------------------------------------- the inputs
\* The headers of the model: the fixed columns followed by at most MaxVars
\* variable columns, in any order and with repetitions.
Headers ==
  {FixedCols \o t : t \in UNION {[1..n -> VarNames] : n \in 0..MaxVars}}

\* Suffix pandas gives to the k-th repetition of a column name.
DupSuffix(k) ==
  CASE k = 1 -> ".1" [] k = 2 -> ".2" [] k = 3 -> ".3" [] OTHER -> ".4"

\* read_csv_file: the column labels of the DataFrame.  skipinitialspace
\* drops the blanks after a delimiter; letter case is kept; a repeated label
\* is renamed name.1, name.2, ...
PandasColumns(h) ==
  [i \in DOMAIN h |->
     LET name == Strip(h[i])
         k == Cardinality({j \in 1..(i - 1) : Strip(h[j]) = name})
     IN IF k = 0 THEN name ELSE name \o DupSuffix(k)]

\* ExtractKeeps with the name compared without lowercasing it.
ExtractKeeps_NoLower(filename, skip) == Strip(filename) \notin skip

\* ExtractKeeps with nothing skipped.
ExtractKeeps_KeepAll(filename, skip) == TRUE

\* extract_metadata_filenames: the rows written to the variable list file.
ExtractKeeps(filename, skip) == Lower(Strip(filename)) \notin skip

RECURSIVE ExtractRows(_, _)
ExtractRows(first_row, skip) ==
  IF first_row = <<>> THEN <<>>
  ELSE LET filename == Head(first_row)
           rest == ExtractRows(Tail(first_row), skip)
       IN IF ExtractKeeps(filename, skip)
          THEN <<Strip(filename)>> \o rest
          ELSE rest

\* read_metadata_filenames: every non-blank line, stripped and uppercased.
ReadLines(lines) == [i \in DOMAIN lines |-> Upper(Strip(lines[i]))]

\* ------------------------------------------------------------ file system
START_DIR == <<"start">>
INPUT_DIR == <<"in">>
OUTPUT_DIR == <<"out">>

\* os.path.join(directory, name)
Join(directory, name) == Append(directory, name)

\* Bodies the metadata endpoint can answer with: a valid document the
\* split data conforms to, a valid document it does not conform to, and an
\* invalid document.
DocBodies == {"ok", "mismatch", "bad"}

\* WriteFile with the file opened for appending.
WriteFile_Append(fs, p, c) ==
  (p :> IF p \in DOMAIN fs THEN fs[p] \o c ELSE c) @@ fs

\* f.write / writer.writerow: the file at path p now holds content c.
WriteFile(fs, p, c) == (p :> c) @@ fs

\* microdata_tools.validate_metadata(NAME, input_directory=root): the error
\* list, as a set.  It reads root/NAME/NAME.json.
MetadataErrors(fs, root, NAME) ==
  LET p == Join(Join(root, NAME), NAME \o ".json")
  IN IF p \notin DOMAIN fs THEN {"metadata file not found"}
     ELSE IF fs[p] = "bad" THEN {"invalid metadata"}
     ELSE {}

\* microdata_tools.validate_dataset(NAME, input_directory=root): the error
\* list, as a set.  It reads root/NAME/NAME.csv and root/NAME/NAME.json.
DatasetErrors(fs, root, NAME) ==
  LET d == Join(Join(root, NAME), NAME \o ".csv")
      m == Join(Join(root, NAME), NAME \o ".json")
  IN IF d \notin DOMAIN fs THEN {"data file not found"}
     ELSE IF m \notin DOMAIN fs THEN {"metadata file not found"}
     ELSE IF fs[m] # "ok" THEN {"data does not conform to metadata"}
     ELSE {}

\* ------------------------------------------------------------------ state
VARIABLES
  header,                       \* first row of the wide table
  run,                          \* which run of the script this is
  pc,                           \* position in main
  idx,                          \* position of the current stage's loop
  varfile,                      \* lines of Microdata_metadata_variables.csv
  df_columns,                   \* df.columns
  metadata_filenames,           \* main: metadata_filenames
  input_directory_path,         \* main: input_directory_path
  output_directory_path,        \* main: output_directory_path
  cwd,                          \* os.getcwd()
  dirs,                         \* existing directories
  files,                        \* existing files: path -> content
  valid_metadata_filenames,     \* main: valid_metadata_filenames
  variables_with_valid_dataset, \* main: variables_with_valid_dataset
  package_result,               \* value package_and_encrypt_dataset returned
  splitLog,                     \* record files opened for writing, in order
  requests,                     \* GET requests issued, in order
  metaLog,                      \* validate_metadata calls, in order
  dataLog,                      \* validate_dataset calls, in order
  pkgLog,                       \* package attempts and the line printed
  ioError,                      \* uncaught OSError: <<stage, name>>, if any
  env,                          \* what the endpoint and the packager answer
  prev,                         \* what the run before this one left behind
  call                          \* a single function call under study

vars ==
  <<header, run, pc, idx, varfile, df_columns, metadata_filenames,
    input_directory_path, output_directory_path, cwd, dirs, files,
    valid_metadata_filenames, variables_with_valid_dataset, package_result,
    splitLog, requests, metaLog, dataLog, pkgLog, ioError, env, prev, call>>

\* The variables main and its stages never touch.
aux == <<env, prev, call>>

\* The variables of a run of main.
mainVars ==
  <<header, run, pc, idx, varfile, df_columns, metadata_filenames,
    input_directory_path, output_directory_path, cwd, dirs, files,
    valid_metadata_filenames, variables_with_valid_dataset, package_result,
    splitLog, requests, metaLog, dataLog, pkgLog, ioError>>

\* State of a process that has just entered main.
fresh ==
  /\ pc = "extract"
  /\ idx = 1
  /\ df_columns = <<>>
  /\ metadata_filenames = <<>>
  /\ input_directory_path = <<>>
  /\ output_directory_path = <<>>
  /\ cwd = START_DIR
  /\ valid_metadata_filenames = <<>>
  /\ variables_with_valid_dataset = <<>>
  /\ package_result = "unset"
  /\ splitLog = <<>>
  /\ requests = <<>>
  /\ metaLog = <<>>
  /\ dataLog = <<>>
  /\ pkgLog = <<>>
  /\ ioError = {}

Init ==
  /\ header \in Headers
  /\ run = 1
  /\ varfile = <<>>
  /\ dirs = {START_DIR}
  /\ files = <<>>
  /\ fresh
  /\ env = "any"
  /\ prev = "none"
  /\ call = "none"

\* ------------------------------------------------- main, before the stages
\* main: extract_metadata_filenames(input_csv_filename, ...) writes the
\* variable list file into the directory the script was started in.
Extract ==
  /\ pc = "extract"
  /\ varfile' = ExtractRows(header, columns_to_skip)
  /\ pc' = "read"
  /\ UNCHANGED aux
  /\ UNCHANGED <<header, run, idx, df_columns, metadata_filenames,
                 input_directory_path, output_directory_path, cwd, dirs,
                 files, valid_metadata_filenames,
                 variables_with_valid_dataset, package_result, splitLog,
                 requests, metaLog, dataLog, pkgLog, ioError>>

\* main: df = read_csv_file(...); metadata_filenames =
\* read_metadata_filenames(...).
ReadInputs ==
  /\ pc = "read"
  /\ df_columns' = PandasColumns(header)
  /\ metadata_filenames' = ReadLines(varfile)
  /\ pc' = "prepare_input"
  /\ UNCHANGED aux
  /\ UNCHANGED <<header, run, idx, varfile, input_directory_path,
                 output_directory_path, cwd, dirs, files,
                 valid_metadata_filenames, variables_with_valid_dataset,
                 package_result, splitLog, requests, metaLog, dataLog,
                 pkgLog, ioError>>

\* prepare_directory(directory): the directory exists afterwards, the
\* process has changed into it, and its absolute path is returned.
PrepareDirs(ds, directory) == ds \cup {directory}
PrepareCwd(directory) == directory

\* main: input_directory_path = prepare_directory(os.getenv("INPUT_DIR"))
PrepareInput ==
  /\ pc = "prepare_input"
  /\ dirs' = PrepareDirs(dirs, INPUT_DIR)
  /\ cwd' = PrepareCwd(INPUT_DIR)
  /\ input_directory_path' = cwd'
  /\ pc' = "prepare_output"
  /\ UNCHANGED aux
  /\ UNCHANGED <<header, run, idx, varfile, df_columns, metadata_filenames,
                 output_directory_path, files, valid_metadata_filenames,
                 variables_with_valid_dataset, package_result, splitLog,
                 requests, metaLog, dataLog, pkgLog, ioError>>

\* main: output_directory_path = prepare_directory(os.getenv("OUTPUT_DIR"));
\* then save_variable_to_csv is called.
PrepareOutput ==
  /\ pc = "prepare_output"
  /\ dirs' = PrepareDirs(dirs, OUTPUT_DIR)
  /\ cwd' = PrepareCwd(OUTPUT_DIR)
  /\ output_directory_path' = cwd'
  /\ pc' = "split"
  /\ idx' = 1
  /\ UNCHANGED aux
  /\ UNCHANGED <<header, run, varfile, df_columns, metadata_filenames,
                 input_directory_path, files, valid_metadata_filenames,
                 variables_with_valid_dataset, package_result, splitLog,
                 requests, metaLog, dataLog, pkgLog, ioError>>

\* ------------------------------------------------------ the stages' loops
\* StageDone with the stage returning from inside its loop.
StageDone_Early(i, names) == TRUE

\* `for ... in names`: a stage returns to main when its loop has gone
\* through every element of its list.
StageDone(i, names) == i > Len(names)

\* ------------------------------------------------- save_variable_to_csv
\* The loop's test on the lowercased name: the name is skipped when it is
\* not a column of the DataFrame, and nothing is written for an
\* identifier/time column.
SplitSkips(filename, columns) ==
  \/ filename \notin Range(columns)
  \/ filename \in {"sidkrg", "start_time", "stop_time"}

\* directory_name = filename.upper(), a path relative to the working
\* directory.
RecordDir(wd, filename) == Join(wd, Upper(filename))

\* filepath = filename.upper() + ".csv", opened after os.chdir(directory_name).
RecordPath(wd, filename) ==
  Join(RecordDir(wd, filename), Upper(filename) \o ".csv")

\* SkipCwd with the chdir back to the input root also done on a skip.
SkipCwd_ChdirBack(wd, root) == root

\* The working directory after an iteration that skipped its name
\* (`continue`: no chdir).
SkipCwd(wd, root) == wd

\* The working directory after an iteration that wrote its file:
\* os.chdir(input_directory_path).
WrittenCwd(wd, root) == root

\* metadata_filenames[name_index] = filename
SetLower(names, i) == [names EXCEPT ![i] = Lower(names[i])]

SplitSkip ==
  /\ pc = "split"
  /\ idx <= Len(metadata_filenames)
  /\ SplitSkips(Lower(metadata_filenames[idx]), df_columns)
  /\ metadata_filenames' = SetLower(metadata_filenames, idx)
  /\ cwd' = SkipCwd(cwd, input_directory_path)
  /\ idx' = idx + 1
  /\ UNCHANGED aux
  /\ UNCHANGED <<header, run, pc, varfile, df_columns, input_directory_path,
                 output_directory_path, dirs, files,
                 valid_metadata_filenames, variables_with_valid_dataset,
                 package_result, splitLog, requests, metaLog, dataLog,
                 pkgLog, ioError>>

SplitWrite ==
  /\ pc = "split"
  /\ idx <= Len(metadata_filenames)
  /\ LET filename == Lower(metadata_filenames[idx]) IN
       /\ ~SplitSkips(filename, df_columns)
       /\ dirs' = dirs \cup {RecordDir(cwd, filename)}
       /\ files' = WriteFile(files, RecordPath(cwd, filename), filename)
       /\ splitLog' = Append(splitLog, RecordPath(cwd, filename))
  /\ metadata_filenames' = SetLower(metadata_filenames, idx)
  /\ cwd' = WrittenCwd(cwd, input_directory_path)
  /\ idx' = idx + 1
  /\ UNCHANGED aux
  /\ UNCHANGED <<header, run, pc, varfile, df_columns, input_directory_path,
                 output_directory_path, valid_metadata_filenames,
                 variables_with_valid_dataset, package_result, requests,
                 metaLog, dataLog, pkgLog, ioError>>

\* os.mkdir(directory_name) raises OSError: nothing in save_variable_to_csv
\* or main catches it.
SplitMkdirError ==
  /\ pc = "split"
  /\ idx <= Len(metadata_filenames)
  /\ LET filename == Lower(metadata_filenames[idx]) IN
       /\ ~SplitSkips(filename, df_columns)
       /\ RecordDir(cwd, filename) \notin dirs
       /\ ioError' = {<<"split", filename>>}
  /\ metadata_filenames' = SetLower(metadata_filenames, idx)
  /\ pc' = "aborted"
  /\ UNCHANGED aux
  /\ UNCHANGED <<header, run, idx, varfile, df_columns,
                 input_directory_path, output_directory_path, cwd, dirs,
                 files, valid_metadata_filenames,
                 variables_with_valid_dataset, package_result, splitLog,
                 requests, metaLog, dataLog, pkgLog>>

\* open(filepath, "w") raises OSError after the chdir into the variable's
\* directory: uncaught as well.
SplitOpenError ==
  /\ pc = "split"
  /\ idx <= Len(metadata_filenames)
  /\ LET filename == Lower(metadata_filenames[idx]) IN
       /\ ~SplitSkips(filename, df_columns)
       /\ dirs' = dirs \cup {RecordDir(cwd, filename)}
       /\ cwd' = RecordDir(cwd, filename)
       /\ ioError' = {<<"split", filename>>}
  /\ metadata_filenames' = SetLower(metadata_filenames, idx)
  /\ pc' = "aborted"
  /\ UNCHANGED aux
  /\ UNCHANGED <<header, run, idx, varfile, df_columns,
                 input_directory_path, output_directory_path, files,
                 valid_metadata_filenames, variables_with_valid_dataset,
                 package_result, splitLog, requests, metaLog, dataLog,
                 pkgLog>>

\* save_variable_to_csv returns; main calls download_metadata.
SplitReturn ==
  /\ pc = "split"
  /\ StageDone(idx, metadata_filenames)
  /\ pc' = "fetch"
  /\ idx' = 1
  /\ UNCHANGED aux
  /\ UNCHANGED <<header, run, varfile, df_columns, metadata_filenames,
                 input_directory_path, output_directory_path, cwd, dirs,
                 files, valid_metadata_filenames,
                 variables_with_valid_dataset, package_result, splitLog,
                 requests, metaLog, dataLog, pkgLog, ioError>>

\* ---------------------------------------------------- download_metadata
\* What one iteration can meet: requests.get times out, the request fails
\* (raise_for_status or a transport error), the body cannot be saved
\* (os.makedirs or open raises OSError, which no except clause names), or
\* the body is saved.
DownloadOutcomes == {"timeout", "failed", "oserror"} \cup DocBodies

\* metadata_filename and directory_name of download_metadata.
MetadataPath(root, filename) ==
  Join(Join(root, Upper(filename)), Upper(filename) \o ".json")

\* An entry of requests: the name asked for, whether the GET succeeded, and
\* the body received.
Request(filename, outcome) ==
  [name |-> filename,
   ok |-> outcome \notin {"timeout", "failed"},
   body |-> IF outcome \in DocBodies THEN outcome ELSE "none"]

\* DownloadNext with a failed request tried again.
DownloadNext_Retry(i, ok) == IF ok THEN i + 1 ELSE i

\* The position of the loop of download_metadata after an iteration: the
\* except clauses only print, so the loop goes on to the next name whether
\* or not the request succeeded.
DownloadNext(i, ok) == i + 1

\* One iteration of the loop of download_metadata.
Download ==
  /\ pc = "fetch"
  /\ idx <= Len(metadata_filenames)
  /\ LET filename == Lower(metadata_filenames[idx])
         directory_name == Join(input_directory_path, Upper(filename))
     IN IF filename \in {"sidkrg", "start_time", "stop_time"}
        THEN /\ idx' = idx + 1
             /\ UNCHANGED <<pc, dirs, files, requests, ioError>>
        ELSE \E outcome \in DownloadOutcomes :
               IF outcome \in {"timeout", "failed"}
               THEN /\ requests' = Append(requests, Request(filename, outcome))
                    /\ idx' = DownloadNext(idx, FALSE)
                    /\ UNCHANGED <<pc, dirs, files, ioError>>
               ELSE IF outcome = "oserror"
               THEN /\ requests' = Append(requests, Request(filename, outcome))
                    /\ dirs' = dirs \cup {directory_name}
                    /\ ioError' = {<<"fetch", filename>>}
                    /\ pc' = "aborted"
                    /\ UNCHANGED <<idx, files>>
               ELSE /\ requests' = Append(requests, Request(filename, outcome))
                    /\ dirs' = dirs \cup {directory_name}
                    /\ files' =
                         WriteFile(files,
                                   MetadataPath(input_directory_path, filename),
                                   outcome)
                    /\ idx' = DownloadNext(idx, TRUE)
                    /\ UNCHANGED <<pc, ioError>>
  /\ UNCHANGED aux
  /\ UNCHANGED <<header, run, varfile, df_columns, metadata_filenames,
                 input_directory_path, output_directory_path, cwd,
                 valid_metadata_filenames, variables_with_valid_dataset,
                 package_result, splitLog, metaLog, dataLog, pkgLog>>

\* download_metadata returns; main calls validate_downloaded_metadata.
DownloadReturn ==
  /\ pc = "fetch"
  /\ StageDone(idx, metadata_filenames)
  /\ pc' = "validate_metadata"
  /\ idx' = 1
  /\ UNCHANGED aux
  /\ UNCHANGED <<header, run, varfile, df_columns, metadata_filenames,
                 input_directory_path, output_directory_path, cwd, dirs,
                 files, valid_metadata_filenames,
                 variables_with_valid_dataset, package_result, splitLog,
                 requests, metaLog, dataLog, pkgLog, ioError>>

\* ----------------------------------------- validate_downloaded_metadata
\* KeepValidMetadata without its test of validation_errors.
KeepValidMetadata_NoTest(valid, metadata_filename, validation_errors) ==
  Append(valid, metadata_filename)

\* KeepValidMetadata with a valid name put at the front of the list.
KeepValidMetadata_Prepend(valid, metadata_filename, validation_errors) ==
  IF validation_errors = {} THEN <<metadata_filename>> \o valid ELSE valid

\* if not validation_errors: valid_metadata.append(metadata_filename)
KeepValidMetadata(valid, metadata_filename, validation_errors) ==
  IF validation_errors = {} THEN Append(valid, metadata_filename) ELSE valid

\* One iteration of the loop of validate_downloaded_metadata.
ValidateMetadata ==
  /\ pc = "validate_metadata"
  /\ idx <= Len(metadata_filenames)
  /\ LET metadata_filename == metadata_filenames[idx]
         validation_errors ==
           MetadataErrors(files, input_directory_path,
                          Upper(metadata_filename))
     IN /\ metaLog' = Append(metaLog, [name |-> Upper(metadata_filename),
                                       errors |-> validation_errors])
        /\ valid_metadata_filenames' =
             KeepValidMetadata(valid_metadata_filenames, metadata_filename,
                               validation_errors)
  /\ idx' = idx + 1
  /\ UNCHANGED aux
  /\ UNCHANGED <<header, run, pc, varfile, df_columns, metadata_filenames,
                 input_directory_path, output_directory_path, cwd, dirs,
                 files, variables_with_valid_dataset, package_result,
                 splitLog, requests, dataLog, pkgLog, ioError>>

\* The list main passes to validate_created_dataset.
DatasetInput(all_names, valid_metadata) == valid_metadata

\* validate_downloaded_metadata returns; main calls
\* validate_created_dataset(valid_metadata_filenames, ...).
ValidateMetadataReturn ==
  /\ pc = "validate_metadata"
  /\ StageDone(idx, metadata_filenames)
  /\ pc' = "validate_dataset"
  /\ idx' = 1
  /\ UNCHANGED aux
  /\ UNCHANGED <<header, run, varfile, df_columns, metadata_filenames,
                 input_directory_path, output_directory_path, cwd, dirs,
                 files, valid_metadata_filenames,
                 variables_with_valid_dataset, package_result, splitLog,
                 requests, metaLog, dataLog, pkgLog, ioError>>

\* --------------------------------------------- validate_created_dataset
\* KeepValidDataset without its test of validation_errors.
KeepValidDataset_NoTest(valid, metadata_filename, validation_errors) ==
  Append(valid, metadata_filename)

\* if not validation_errors: valid_datasets.append(metadata_filename)
KeepValidDataset(valid, metadata_filename, validation_errors) ==
  IF validation_errors = {} THEN Append(valid, metadata_filename) ELSE valid

\* One iteration of the loop of validate_created_dataset.
ValidateDataset ==
  /\ pc = "validate_dataset"
  /\ LET names == DatasetInput(metadata_filenames, valid_metadata_filenames)
     IN /\ idx <= Len(names)
        /\ LET metadata_filename == names[idx]
               validation_errors ==
                 DatasetErrors(files, input_directory_path,
                               Upper(metadata_filename))
           IN /\ dataLog' = Append(dataLog,
                                   [name |-> Upper(metadata_filename),
                                    errors |-> validation_errors])
              /\ variables_with_valid_dataset' =
                   KeepValidDataset(variables_with_valid_dataset,
                                    metadata_filename, validation_errors)
  /\ idx' = idx + 1
  /\ UNCHANGED aux
  /\ UNCHANGED <<header, run, pc, varfile, df_columns, metadata_filenames,
                 input_directory_path, output_directory_path, cwd, dirs,
                 files, valid_metadata_filenames, package_result, splitLog,
                 requests, metaLog, pkgLog, ioError>>

\* validate_created_dataset returns; main calls
\* package_and_encrypt_dataset(variables_with_valid_dataset, ...).
ValidateDatasetReturn ==
  /\ pc = "validate_dataset"
  /\ StageDone(idx,
               DatasetInput(metadata_filenames, valid_metadata_filenames))
  /\ pc' = "package"
  /\ idx' = 1
  /\ UNCHANGED aux
  /\ UNCHANGED <<header, run, varfile, df_columns, metadata_filenames,
                 input_directory_path, output_directory_path, cwd, dirs,
                 files, valid_metadata_filenames,
                 variables_with_valid_dataset, package_result, splitLog,
                 requests, metaLog, dataLog, pkgLog, ioError>>

\* ------------------------------------------ package_and_encrypt_dataset
\* The list main passes to package_and_encrypt_dataset.
PackageInput(valid_metadata, valid_dataset) == valid_dataset

\* PackageMessage with the success line printed whatever happened.
PackageMessage_AlwaysSuccess(raised) == "success"

\* The line printed for an attempt: the success line is the last statement
\* of the try block, the error line is printed by the except clause.
PackageMessage(raised) == IF raised THEN "error" ELSE "success"

\* An entry of pkgLog: the name, whether package_dataset was called,
\* whether the try block raised, and the line printed.
PackageEntry(metadata_filename, called, raised) ==
  [name |-> metadata_filename, called |-> called, raised |-> raised,
   printed |-> PackageMessage(raised)]

\* PackageNext with the try block around the loop instead of inside it: an
\* exception ends the loop.
PackageNext_Stop(i, raised, names) == IF raised THEN Len(names) + 1 ELSE i + 1

\* The position of the loop of package_and_encrypt_dataset after an
\* iteration: the except clause is inside the loop and only prints.
PackageNext(i, raised, names) == i + 1

\* os.makedirs and package_dataset both return.
PackageOk ==
  /\ pc = "package"
  /\ LET names == PackageInput(valid_metadata_filenames,
                               variables_with_valid_dataset)
     IN /\ idx <= Len(names)
        /\ dirs' = dirs \cup {Join(output_directory_path, Upper(names[idx]))}
        /\ pkgLog' = Append(pkgLog, PackageEntry(names[idx], TRUE, FALSE))
  /\ idx' = PackageNext(idx, FALSE,
                      PackageInput(valid_metadata_filenames,
                                   variables_with_valid_dataset))
  /\ UNCHANGED aux
  /\ UNCHANGED <<header, run, pc, varfile, df_columns, metadata_filenames,
                 input_directory_path, output_directory_path, cwd, files,
                 valid_metadata_filenames, variables_with_valid_dataset,
                 package_result, splitLog, requests, metaLog, dataLog,
                 ioError>>

\* package_dataset raises; `except Exception` catches it.
PackageRaises ==
  /\ pc = "package"
  /\ LET names == PackageInput(valid_metadata_filenames,
                               variables_with_valid_dataset)
     IN /\ idx <= Len(names)
        /\ dirs' = dirs \cup {Join(output_directory_path, Upper(names[idx]))}
        /\ pkgLog' = Append(pkgLog, PackageEntry(names[idx], TRUE, TRUE))
  /\ idx' = PackageNext(idx, TRUE,
                      PackageInput(valid_metadata_filenames,
                                   variables_with_valid_dataset))
  /\ UNCHANGED aux
  /\ UNCHANGED <<header, run, pc, varfile, df_columns, metadata_filenames,
                 input_directory_path, output_directory_path, cwd, files,
                 valid_metadata_filenames, variables_with_valid_dataset,
                 package_result, splitLog, requests, metaLog, dataLog,
                 ioError>>

\* os.makedirs(output_dir, exist_ok=True) raises inside the try block:
\* package_dataset is not called for this name.
PackageMakedirsRaises ==
  /\ pc = "package"
  /\ LET names == PackageInput(valid_metadata_filenames,
                               variables_with_valid_dataset)
     IN /\ idx <= Len(names)
        /\ Join(output_directory_path, Upper(names[idx])) \notin dirs
        /\ pkgLog' = Append(pkgLog, PackageEntry(names[idx], FALSE, TRUE))
  /\ idx' = PackageNext(idx, TRUE,
                      PackageInput(valid_metadata_filenames,
                                   variables_with_valid_dataset))
  /\ UNCHANGED aux
  /\ UNCHANGED <<header, run, pc, varfile, df_columns, metadata_filenames,
                 input_directory_path, output_directory_path, cwd, dirs,
                 files, valid_metadata_filenames,
                 variables_with_valid_dataset, package_result, splitLog,
                 requests, metaLog, dataLog, ioError>>

\* package_and_encrypt_dataset falls off its end (returns None); main prints
\* the duration and returns.
PackageReturn ==
  /\ pc = "package"
  /\ StageDone(idx, PackageInput(valid_metadata_filenames,
                                 variables_with_valid_dataset))
  /\ package_result' = "None"
  /\ pc' = "done"
  /\ UNCHANGED aux
  /\ UNCHANGED <<header, run, idx, varfile, df_columns, metadata_filenames,
                 input_directory_path, output_directory_path, cwd, dirs,
                 files, valid_metadata_filenames,
                 variables_with_valid_dataset, splitLog, requests, metaLog,
                 dataLog, pkgLog, ioError>>

\* ------------------------------------------------------------ the script
\* The script is started again (`if __name__ == "__main__": main()`) on the
\* same table and directories; the files of the earlier run are still there.
Restart ==
  /\ pc \in {"done", "aborted"}
  /\ run < MaxRuns
  /\ run' = run + 1
  /\ pc' = "extract"
  /\ idx' = 1
  /\ df_columns' = <<>>
  /\ metadata_filenames' = <<>>
  /\ input_directory_path' = <<>>
  /\ output_directory_path' = <<>>
  /\ cwd' = START_DIR
  /\ valid_metadata_filenames' = <<>>
  /\ variables_with_valid_dataset' = <<>>
  /\ package_result' = "unset"
  /\ splitLog' = <<>>
  /\ requests' = <<>>
  /\ metaLog' = <<>>
  /\ dataLog' = <<>>
  /\ pkgLog' = <<>>
  /\ ioError' = {}
  /\ UNCHANGED <<header, varfile, dirs, files>>

Rerun == Restart /\ UNCHANGED aux

Next ==
  \/ Extract
  \/ ReadInputs
  \/ PrepareInput
  \/ PrepareOutput
  \/ SplitSkip
  \/ SplitWrite
  \/ SplitMkdirError
  \/ SplitOpenError
  \/ SplitReturn
  \/ Download
  \/ DownloadReturn
  \/ ValidateMetadata
  \/ ValidateMetadataReturn
  \/ ValidateDataset
  \/ ValidateDatasetReturn
  \/ PackageOk
  \/ PackageRaises
  \/ PackageMakedirsRaises
  \/ PackageReturn
  \/ Rerun

Spec == Init /\ [][Next]_vars

\* ================================================================ claims
\* The names (uppercased, as the collaborators receive them) of a list.
UpperNames(names) == {Upper(names[i]) : i \in DOMAIN names}

\* The stages after download_metadata has returned.
AfterFetch ==
  pc \in {"validate_metadata", "validate_dataset", "package", "done"}

\* The names save_variable_to_csv has gone through so far in this run.
SplitProcessed ==
  IF pc \in {"extract", "read", "prepare_input", "prepare_output"} THEN <<>>
  ELSE IF pc = "split"
  THEN SubSeq(metadata_filenames, 1, idx - 1)
  ELSE metadata_filenames

\* A name of the variable list that is not a column of the table.
Absent(name) == Lower(name) \notin Range(df_columns)

\* C1: a variable for which validate_metadata returned errors is not in the
\* list passed to validate_created_dataset, and validate_dataset is not
\* called for it.
C1_MetadataFailureExcluded ==
  \A i \in DOMAIN metaLog :
    metaLog[i].errors # {} =>
      /\ metaLog[i].name \notin
           UpperNames(DatasetInput(metadata_filenames,
                                   valid_metadata_filenames))
      /\ \A j \in DOMAIN dataLog : dataLog[j].name # metaLog[i].name

\* C1 witness: a finished run in which one variable failed metadata
\* validation while another went on to dataset validation.
C1_Witness ==
  /\ pc = "done"
  /\ \E i \in DOMAIN metaLog : metaLog[i].errors # {}
  /\ dataLog # <<>>

\* C2: package_dataset is called for a variable only if validate_metadata
\* and validate_dataset both returned no errors for it in this run.
C2_PackagedOnlyIfBothValid ==
  \A k \in DOMAIN pkgLog :
    /\ \E i \in DOMAIN metaLog :
         /\ metaLog[i].name = Upper(pkgLog[k].name)
         /\ metaLog[i].errors = {}
    /\ \E j \in DOMAIN dataLog :
         /\ dataLog[j].name = Upper(pkgLog[k].name)
         /\ dataLog[j].errors = {}

\* C2 witness: a finished run in which one variable was packaged and another
\* was kept out by dataset validation.
C2_Witness ==
  /\ pc = "done"
  /\ \E k \in DOMAIN pkgLog : pkgLog[k].called
  /\ \E j \in DOMAIN dataLog : dataLog[j].errors # {}

\* The `failed` mapping and the `succeeded` sequence of a value returned by
\* the packaging stage; None carries neither.
ResultFailed(r) == IF r \in {"unset", "None"} THEN {} ELSE DOMAIN r.failed
ResultSucceeded(r) ==
  IF r \in {"unset", "None"} THEN {} ELSE Range(r.succeeded)

C4_RecordsUnderInputRoot ==
  \A i \in DOMAIN splitLog :
    \E j \in DOMAIN metadata_filenames :
      splitLog[i] = RecordPath(INPUT_DIR, Lower(metadata_filenames[j]))

\* C5 as stated: no failure of a stage ends main before its last statement.
C5_NeverAborted == pc # "aborted"

\* C6 as stated: when save_variable_to_csv is over, every variable of the
\* list that is a column of the table and did not itself meet an I/O error
\* has had its record file written.
C6_OthersStillSplit ==
  pc \notin {"extract", "read", "prepare_input", "prepare_output", "split"} =>
    \A i \in DOMAIN metadata_filenames :
      LET filename == Lower(metadata_filenames[i]) IN
        (/\ ~SplitSkips(filename, df_columns)
         /\ <<"split", filename>> \notin ioError)
        => \E j \in DOMAIN splitLog :
             splitLog[j][Len(splitLog[j])] = Upper(filename) \o ".csv"

\* The variables every request of which failed in this run.
FetchFailed ==
  {requests[i].name : i \in DOMAIN requests} \
    {requests[i].name : i \in {j \in DOMAIN requests : requests[j].ok}}

\* C7 as stated: for a variable whose fetch failed, after download_metadata
\* there is no metadata document at <root>/<NAME>/<NAME>.json, metadata
\* validation reports errors for it, and the packager is not called for it.
C7_FailedFetchLeavesNoDocument ==
  \A v \in FetchFailed :
    /\ AfterFetch =>
         MetadataPath(input_directory_path, v) \notin DOMAIN files
    /\ \A i \in DOMAIN metaLog :
         metaLog[i].name = Upper(v) => metaLog[i].errors # {}
    /\ \A k \in DOMAIN pkgLog : Upper(pkgLog[k].name) # Upper(v)

\* C8 as stated: for a name of the list that is not a column of the table,
\* no request is issued, no validator is called and no package attempt is
\* made.
C8_AbsentNeverProgresses ==
  \A i \in DOMAIN metadata_filenames :
    Absent(metadata_filenames[i]) =>
      LET filename == Lower(metadata_filenames[i]) IN
        /\ \A r \in DOMAIN requests : requests[r].name # filename
        /\ \A m \in DOMAIN metaLog : metaLog[m].name # Upper(filename)
        /\ \A d \in DOMAIN dataLog : dataLog[d].name # Upper(filename)
        /\ \A k \in DOMAIN pkgLog : Upper(pkgLog[k].name) # Upper(filename)

\* The names of a list that save_variable_to_csv writes, in list order.
Written(names) ==
  SelectSeq(names, LAMBDA n : ~SplitSkips(Lower(n), df_columns))

\* C9: the record files save_variable_to_csv has opened are those of the
\* names that are columns, in list order, the first under the directory the
\* process was in when the stage began and the others under the input root,
\* wherever the absent names stand in the list; an iteration on an absent
\* name creates no directory and no file.
C9_AbsentLeavesOthersAlone ==
  /\ [](pc # "aborted" =>
          LET W == Written(SplitProcessed) IN
            splitLog =
              [k \in 1..Len(W) |->
                 RecordPath(IF k = 1 THEN output_directory_path
                                     ELSE input_directory_path,
                            Lower(W[k]))])
  /\ [][(/\ pc = "split"
         /\ idx <= Len(metadata_filenames)
         /\ Absent(metadata_filenames[idx]))
        => (dirs' = dirs /\ files' = files /\ splitLog' = splitLog)]_vars

\* C9 witness: the stage has finished on a list whose first name is absent
\* from the table and a later name has been written.
C9_Witness ==
  /\ pc = "fetch"
  /\ metadata_filenames # <<>>
  /\ Absent(metadata_filenames[1])
  /\ splitLog # <<>>

\* C10 as stated: package_dataset is called at most once per variable in a
\* run.
C10_PackagedAtMostOnce ==
  \A k1, k2 \in DOMAIN pkgLog :
    (/\ pkgLog[k1].called
     /\ pkgLog[k2].called
     /\ Upper(pkgLog[k1].name) = Upper(pkgLog[k2].name))
    => k1 = k2

\* The names download_metadata has gone through so far in this run.
FetchProcessed ==
  IF pc = "fetch" THEN SubSeq(metadata_filenames, 1, idx - 1)
  ELSE IF AfterFetch THEN metadata_filenames
  ELSE IF pc = "aborted" /\ \E e \in ioError : e[1] = "fetch"
  THEN SubSeq(metadata_filenames, 1, idx)
  ELSE <<>>

\* C11: the GET requests issued are, in list order, one for each name of
\* the list download_metadata has gone through that is not an
\* identifier/time column, whatever the earlier requests answered: a failed
\* request is neither repeated nor the end of the loop.
C11_OneRequestPerName ==
  LET P == SelectSeq(FetchProcessed,
                     LAMBDA n : Lower(n) \notin
                                  {"sidkrg", "start_time", "stop_time"})
  IN [i \in DOMAIN requests |-> requests[i].name] =
       [i \in DOMAIN P |-> Lower(P[i])]

\* C11 witness: download_metadata has returned and a request was issued
\* after one that failed.
C11_Witness ==
  /\ AfterFetch
  /\ \E i, j \in DOMAIN requests : i < j /\ ~requests[i].ok

\* The names package_and_encrypt_dataset has gone through so far in this
\* run.
PackageProcessed ==
  LET names == PackageInput(valid_metadata_filenames,
                            variables_with_valid_dataset)
  IN IF pc = "package" THEN SubSeq(names, 1, idx - 1)
     ELSE IF pc = "done" THEN names
     ELSE <<>>

\* C12: the package attempts made are, in list order, one for each name of
\* the list the stage has gone through, whichever of the earlier attempts
\* raised; when the stage has returned there is one for every name of its
\* list.
C12_EveryNameAttempted ==
  [i \in DOMAIN pkgLog |-> pkgLog[i].name] = PackageProcessed

\* C12 witness: the stage has returned, package_dataset raised for one
\* name and was called for a later one.
C12_Witness ==
  /\ pc = "done"
  /\ \E i, j \in DOMAIN pkgLog :
       /\ i < j
       /\ pkgLog[i].called
       /\ pkgLog[i].raised
       /\ pkgLog[j].called

\* C13: the stages run one after the other, each over its whole list: a
\* record file is written only after the catalog has been read, a request
\* is issued only after save_variable_to_csv has gone through every name,
\* metadata is validated only after every name has had its request, a
\* dataset is validated only after every name has had its metadata
\* validated, and a package attempt is made only after every metadata-valid
\* name has had its dataset validated.
C13_StagesInOrder ==
  /\ splitLog # <<>> => metadata_filenames # <<>>
  /\ requests # <<>> =>
       /\ \A i \in DOMAIN metadata_filenames :
            metadata_filenames[i] = Lower(metadata_filenames[i])
       /\ Len(splitLog) = Len(Written(metadata_filenames))
  /\ metaLog # <<>> => Len(requests) = Len(metadata_filenames)
  /\ dataLog # <<>> => Len(metaLog) = Len(metadata_filenames)
  /\ pkgLog # <<>> =>
       Len(dataLog) =
         Len(DatasetInput(metadata_filenames, valid_metadata_filenames))

\* C13 witness: a finished run over several variables in which every stage
\* acted.
C13_Witness ==
  /\ pc = "done"
  /\ Len(metadata_filenames) >= 2
  /\ Len(splitLog) >= 2
  /\ pkgLog # <<>>

\* ============================================ extract_metadata_filenames
\* Longest header given to extract_metadata_filenames on its own.
MaxHeader == 3

\* The names of those headers: the variable names, an identifier column
\* and the same column capitalised.
ExtractNames == VarNames \cup {"sidkrg", "Sidkrg"}

\* The sets of names to skip.
ReservedSets == SUBSET {"sidkrg", "age", "bmi"}

\* No run of main is under way: the script has not been started.
NoRun ==
  /\ header = FixedCols
  /\ run = 1
  /\ varfile = <<>>
  /\ dirs = {START_DIR}
  /\ files = <<>>
  /\ fresh
  /\ env = "any"
  /\ prev = "none"

\* extract_metadata_filenames is about to be called on a header and a set
\* of columns to skip.
InitExtract ==
  /\ NoRun
  /\ \E H \in UNION {[1..n -> ExtractNames] : n \in 1..MaxHeader} :
       \E R \in ReservedSets :
         call = [fn |-> "extract_metadata_filenames", first_row |-> H,
                 columns_to_skip |-> R, rows |-> <<>>, returned |-> FALSE]

\* extract_metadata_filenames(input_csv, output_metadata_file,
\* columns_to_skip) runs and writes its rows.
ExtractCall ==
  /\ ~call.returned
  /\ call' = [call EXCEPT
                !.rows = ExtractRows(call.first_row, call.columns_to_skip),
                !.returned = TRUE]
  /\ UNCHANGED <<mainVars, env, prev>>

SpecExtract == InitExtract /\ [][ExtractCall]_vars

\* C14 as stated: the rows written hold no element whose lowercase form is
\* to be skipped, and are the elements of the header whose lowercase form
\* is not to be skipped, in the header's order.
C14_SubsequenceOfHeader ==
  call.returned =>
    /\ \A i \in DOMAIN call.rows :
         Lower(call.rows[i]) \notin call.columns_to_skip
    /\ call.rows =
         SelectSeq(call.first_row,
                   LAMBDA h : Lower(h) \notin call.columns_to_skip)

\* C14 amended: names are compared and written without their surrounding
\* blanks: the rows written are the header elements whose stripped
\* lowercase form is not to be skipped, each stripped, in the header's
\* order with duplicates; none of them has a lowercase form to be skipped.
C14_StrippedSubsequenceOfHeader ==
  call.returned =>
    LET kept == SelectSeq(call.first_row,
                          LAMBDA h : Lower(Strip(h)) \notin
                                       call.columns_to_skip)
    IN /\ \A i \in DOMAIN call.rows :
            Lower(call.rows[i]) \notin call.columns_to_skip
       /\ call.rows = [i \in DOMAIN kept |-> Strip(kept[i])]

\* C14 witness: the function has returned from a header in which a
\* capitalised name to skip was dropped and a repeated name was kept
\* twice.
C14_Witness ==
  /\ call.returned
  /\ "sidkrg" \in call.columns_to_skip
  /\ \E i \in DOMAIN call.first_row : call.first_row[i] = "Sidkrg"
  /\ \E i, j \in DOMAIN call.rows : i < j /\ call.rows[i] = call.rows[j]

\* ========================= save_variable_to_csv: the lines of a record file
\* Most rows of a table whose record file is followed line by line.
MaxRows == 2

\* Cell texts of the identifier column and of a variable's column; the
\* time columns hold one date each.
IdTexts == {"1", "2"}
ValueTexts == {"1", "01", ""}
START_TEXT == "2024-01-01"
STOP_TEXT == "2024-01-02"

\* The wide tables: rows of cell texts, as they stand in the input file.
Tables ==
  UNION {[1..n -> [sidkrg : IdTexts, value : ValueTexts,
                   start_time : {START_TEXT}, stop_time : {STOP_TEXT}]] :
           n \in 0..MaxRows}

\* Cell texts pandas reads as an integer, and the integer.
IntTexts == {"1", "01", "2"}
IntValue(t) == IF t = "2" THEN 2 ELSE 1

\* read_csv_file: pd.read_csv infers the type of a column from all of its
\* cells.  Integers throughout: int64.  Integers and empty cells: float64,
\* an empty cell being NaN.  Anything else: the texts, an empty cell being
\* NaN.
ParseColumn(cells) ==
  IF \A i \in DOMAIN cells : cells[i] \in IntTexts
  THEN [i \in DOMAIN cells |-> [kind |-> "int", n |-> IntValue(cells[i])]]
  ELSE IF \A i \in DOMAIN cells : cells[i] \in IntTexts \cup {""}
  THEN [i \in DOMAIN cells |->
          IF cells[i] = "" THEN [kind |-> "nan"]
          ELSE [kind |-> "float", n |-> IntValue(cells[i])]]
  ELSE [i \in DOMAIN cells |->
          IF cells[i] = "" THEN [kind |-> "nan"]
          ELSE [kind |-> "str", text |-> cells[i]]]

\* read_csv_file: the DataFrame of a table, column by column.
ParseTable(T) ==
  [sidkrg |-> ParseColumn([i \in DOMAIN T |-> T[i].sidkrg]),
   value |-> ParseColumn([i \in DOMAIN T |-> T[i].value]),
   start_time |-> ParseColumn([i \in DOMAIN T |-> T[i].start_time]),
   stop_time |-> ParseColumn([i \in DOMAIN T |-> T[i].stop_time])]

\* writer.writerow: the text csv.writer writes for a value.
CsvText(v) ==
  CASE v.kind = "int" -> (IF v.n = 2 THEN "2" ELSE "1")
    [] v.kind = "float" -> (IF v.n = 2 THEN "2.0" ELSE "1.0")
    [] v.kind = "nan" -> "nan"
    [] OTHER -> v.text

\* row_data of save_variable_to_csv for row i, as written.
RowData(df, i) ==
  <<CsvText(df.sidkrg[i]), CsvText(df.value[i]), "",
    CsvText(df.start_time[i]), CsvText(df.stop_time[i])>>

\* main is about to read a table that has one variable column.
InitRecords ==
  /\ NoRun
  /\ \E T \in Tables :
       call = [fn |-> "save_variable_to_csv", table |-> T, df |-> <<>>,
               number_of_rows |-> 0, i |-> 0, lines |-> <<>>,
               at |-> "read"]

\* main: df = read_csv_file(...); number_of_rows = df.shape[0]; the file of
\* the variable is opened.
ReadTable ==
  /\ call.at = "read"
  /\ call' = [call EXCEPT !.df = ParseTable(call.table),
                          !.number_of_rows = Len(call.table),
                          !.at = "write"]
  /\ UNCHANGED <<mainVars, env, prev>>

\* save_variable_to_csv: one pass of `for i in range(number_of_rows)`.
WriteRow ==
  /\ call.at = "write"
  /\ call.i < call.number_of_rows
  /\ call' = [call EXCEPT !.i = call.i + 1,
                          !.lines = Append(call.lines,
                                           RowData(call.df, call.i + 1))]
  /\ UNCHANGED <<mainVars, env, prev>>

\* save_variable_to_csv: the loop is over and the file is closed.
CloseRecordFile ==
  /\ call.at = "write"
  /\ call.i >= call.number_of_rows
  /\ call' = [call EXCEPT !.at = "written"]
  /\ UNCHANGED <<mainVars, env, prev>>

NextRecords == ReadTable \/ WriteRow \/ CloseRecordFile

SpecRecords == InitRecords /\ [][NextRecords]_vars

\* C15 as stated: the record file of a variable has one line per row of the
\* table, in row order, each of 5 fields, the first the row's identifier
\* field, the second the row's value for the variable, the third empty.
C15_RecordLinesMatchTable ==
  call.at = "written" =>
    /\ Len(call.lines) = Len(call.table)
    /\ \A i \in DOMAIN call.lines :
         /\ Len(call.lines[i]) = 5
         /\ call.lines[i][1] = call.table[i].sidkrg
         /\ call.lines[i][2] = call.table[i].value
         /\ call.lines[i][3] = ""

\* ---------------------------------------------------------------- C16
\* The directory keys of the catalog: the uppercase forms of its names.
CatalogKeys == UpperNames(varfile)

\* C16: no record file, request, validator call or package attempt is for
\* an identifier/time column, and every stage addresses a variable by the
\* uppercase form of its catalog name: directory <KEY> and files <KEY>.csv
\* and <KEY>.json.
C16_ReservedStopAtCatalog ==
  /\ \A i \in DOMAIN splitLog :
       /\ Lower(splitLog[i][2]) \notin columns_to_skip
       /\ splitLog[i][2] \in CatalogKeys
       /\ splitLog[i][3] = splitLog[i][2] \o ".csv"
  /\ \A i \in DOMAIN requests :
       /\ Lower(requests[i].name) \notin columns_to_skip
       /\ Upper(requests[i].name) \in CatalogKeys
       /\ requests[i].body # "none" =>
            Join(Join(input_directory_path, Upper(requests[i].name)),
                 Upper(requests[i].name) \o ".json") \in DOMAIN files
  /\ \A i \in DOMAIN metaLog :
       /\ Lower(metaLog[i].name) \notin columns_to_skip
       /\ metaLog[i].name \in CatalogKeys
  /\ \A i \in DOMAIN dataLog :
       /\ Lower(dataLog[i].name) \notin columns_to_skip
       /\ dataLog[i].name \in CatalogKeys
  /\ \A i \in DOMAIN pkgLog :
       /\ Lower(pkgLog[i].name) \notin columns_to_skip
       /\ Upper(pkgLog[i].name) \in CatalogKeys
       /\ pkgLog[i].called =>
            Join(output_directory_path, Upper(pkgLog[i].name)) \in dirs

\* C16 witness: a finished run on a table with its identifier/time columns
\* in which every stage acted on some variable.
C16_Witness ==
  /\ pc = "done"
  /\ Range(FixedCols) \subseteq Range(header)
  /\ splitLog # <<>>
  /\ requests # <<>>
  /\ pkgLog # <<>>

\* =================================== two runs in a stable environment
\* The lowercase names of the variables of the model.
LowerVarNames == {Lower(Strip(n)) : n \in VarNames}

\* What a stable endpoint answers for a name: no usable response, or a
\* body.
Answers == {"failed"} \cup DocBodies

\* A request entry is what the stable endpoint answers for its name.
Answered(r, answer) ==
  IF answer = "failed" THEN ~r.ok ELSE r.body = answer

\* The script is about to be run on a table, against an endpoint that
\* answers the same for a name every time and a packager that raises for
\* the same names every time; the directories do not exist yet.
InitTwice ==
  /\ header \in Headers
  /\ run = 1
  /\ varfile = <<>>
  /\ dirs = {START_DIR}
  /\ files = <<>>
  /\ fresh
  /\ env \in [endpoint : [LowerVarNames -> Answers],
              raises : [LowerVarNames -> BOOLEAN]]
  /\ prev = "none"
  /\ call = "none"

\* An iteration of download_metadata against the stable endpoint, the body
\* being saved without an I/O error.
DownloadStable ==
  /\ Download
  /\ pc' # "aborted"
  /\ requests' # requests =>
       LET r == requests'[Len(requests')]
       IN Answered(r, env.endpoint[r.name])

\* A package attempt with the deterministic packager: it returns.
PackageOkStable ==
  /\ PackageOk
  /\ ~env.raises[Lower(pkgLog'[Len(pkgLog')].name)]

\* A package attempt with the deterministic packager: it raises.
PackageRaisesStable ==
  /\ PackageRaises
  /\ env.raises[Lower(pkgLog'[Len(pkgLog')].name)]

\* The names packaged in this run.
Packaged ==
  {pkgLog[i].name :
     i \in {j \in DOMAIN pkgLog : pkgLog[j].called /\ ~pkgLog[j].raised}}

\* The record files of a file system, with their contents.
RecordFiles(fs) ==
  LET ps == {q \in DOMAIN fs : q[3] = q[2] \o ".csv"}
  IN [q \in ps |-> fs[q]]

\* The script is started again after a finished run; what that run left is
\* remembered.
RerunRecorded ==
  /\ pc = "done"
  /\ Restart
  /\ prev' = [records |-> RecordFiles(files),
              valid_metadata |-> valid_metadata_filenames,
              valid_dataset |-> variables_with_valid_dataset,
              packaged |-> Packaged]
  /\ UNCHANGED <<env, call>>

NextTwice ==
  \/ Extract
  \/ ReadInputs
  \/ PrepareInput
  \/ PrepareOutput
  \/ SplitSkip
  \/ SplitWrite
  \/ SplitReturn
  \/ DownloadStable
  \/ DownloadReturn
  \/ ValidateMetadata
  \/ ValidateMetadataReturn
  \/ ValidateDataset
  \/ ValidateDatasetReturn
  \/ PackageOkStable
  \/ PackageRaisesStable
  \/ PackageReturn
  \/ RerunRecorded

SpecTwice == InitTwice /\ [][NextTwice]_vars

\* C17: when a run after the first has finished, the record files (paths
\* and contents), the metadata-valid names, the dataset-valid names and the
\* packaged names are those the run before it left.
C17_SecondRunSameOutcome ==
  (run > 1 /\ pc = "done") =>
    /\ RecordFiles(files) = prev.records
    /\ valid_metadata_filenames = prev.valid_metadata
    /\ variables_with_valid_dataset = prev.valid_dataset
    /\ Packaged = prev.packaged

\* C17 witness: a second run has finished in which record files were
\* written, one variable was packaged and another was kept out by a
\* validator.
C17_Witness ==
  /\ run = 2
  /\ pc = "done"
  /\ Len(splitLog) >= 2
  /\ Packaged # {}
  /\ Len(variables_with_valid_dataset) < Len(metadata_filenames)

\* ---------------------------------------------------------------- C18
\* C18 as stated: every name of the variable list, lowercased again by
\* save_variable_to_csv, is a column of the DataFrame.
C18_RoundTripFindsColumn ==
  pc \notin {"extract", "read"} =>
    \A i \in DOMAIN metadata_filenames :
      Lower(metadata_filenames[i]) \in Range(df_columns)

\* ---------------------------------------------------------------- C19
\* The elements of names at the positions where the validator returned no
\* errors, as far as the log goes.
RECURSIVE KeptBy(_, _)
KeptBy(names, log) ==
  IF log = <<>> THEN <<>>
  ELSE (IF Head(log).errors = {} THEN <<Head(names)>> ELSE <<>>)
         \o KeptBy(Tail(names), Tail(log))

\* C19: each validation stage calls the validator on the elements of its
\* input list in order and returns, in that order, exactly those for which
\* it returned no errors; so the names of the package attempts are among
\* the dataset-valid names, these among the metadata-valid names, and these
\* among the names of the catalog.
C19_ValidListsAreFilteredInputs ==
  LET passed == DatasetInput(metadata_filenames, valid_metadata_filenames)
  IN /\ \A i \in DOMAIN metaLog :
          metaLog[i].name = Upper(metadata_filenames[i])
     /\ valid_metadata_filenames = KeptBy(metadata_filenames, metaLog)
     /\ \A i \in DOMAIN dataLog : dataLog[i].name = Upper(passed[i])
     /\ variables_with_valid_dataset = KeptBy(passed, dataLog)
     /\ {pkgLog[i].name : i \in DOMAIN pkgLog}
          \subseteq Range(variables_with_valid_dataset)
     /\ Range(variables_with_valid_dataset)
          \subseteq Range(valid_metadata_filenames)
     /\ Range(valid_metadata_filenames) \subseteq Range(metadata_filenames)
     /\ UpperNames(metadata_filenames) \subseteq CatalogKeys

\* C19 witness: a finished run in which metadata validation kept several
\* names, dataset validation dropped one of those it was given, and a
\* package attempt was made.
C19_Witness ==
  /\ pc = "done"
  /\ Len(valid_metadata_filenames) >= 2
  /\ Len(variables_with_valid_dataset) < Len(valid_metadata_filenames)
  /\ pkgLog # <<>>

====
